---- MODULE Spec2Model ----
(***************************************************************************)
(* The online detection-and-retraining loop of                             *)
(* ai-infrastructure-anomaly-detection/src/detect_anomaly.py               *)
(* (run_pipeline and the functions it calls), the EnsembleDetector of      *)
(* src/ensemble_inference.py and the DataValidator of                      *)
(* src/validate_data.py, as state machines.                                *)
(*                                                                         *)
(* One step of the model is one pass through the body of `while True`, or  *)
(* one (re)start of the process.  The collaborators (InfluxDB, the fitted  *)
(* model, the file system) are the environment: their answers are inputs   *)
(* of the step.  Times are whole seconds.  A row of a CSV file is          *)
(* represented by who wrote it (its arrival number in that file and the    *)
(* raw label the sample got); the feature values of stored rows are not    *)
(* read by the loop (only len() and fit() consume them) and are left out.  *)
(***************************************************************************)
EXTENDS Integers, Sequences, FiniteSets, TLC

(* ------------------------- program constants ------------------------- *)

ANOMALY_THRESHOLD == 12

CPU_SURGE_THRESHOLD == 10

MEM_SURGE_THRESHOLD == 30

NET_SURGE_THRESHOLD == 15000

\* pd.concat(...).tail(2000): the rows the historical CSV keeps
HISTORY_ROWS == 2000

\* pd.concat(...).tail(1000): the rows the detected-anomalies CSV keeps
ANOMALY_ROWS == 1000

\* len(updated_memory) >= 30
RETRAIN_MIN_ROWS == 30

\* (time.time() - last_retrain_time) > 300
RETRAIN_INTERVAL == 300

\* time.sleep(10)
POLL_SLEEP == 10

(* --------------------------- model bounds ---------------------------- *)

\* The loop is explored in three settings of its environment.  In each the
\* clock stops the model after the time a number of passes takes.

\* polling at full speed, long enough for the gate to open and stay open
GatePasses == 16

\* slow passes (the blocking calls take a minute and a half), long enough
\* for a retrain to fall due and for a pass after it
RetrainPasses == 4

\* full files, long enough for rows to be evicted
FilesPasses == 4

\* slow passes of a process that is started again and again, long enough for
\* a restart, a retrain and a pass after it
RestartPasses == 6

\* a loop that runs without end is followed through this many retrains
MaxRetrains == 3

\* and through the samples that many retrains can take: 30 to fill the
\* historical file, and no more than 4 passes of 100 s from one retrain to
\* the next
MaxSamples == RETRAIN_MIN_ROWS + 5 * (MaxRetrains + 1)

\* how long the blocking calls of one pass (queries, writes, fit) take
PollDelays == {0}

SlowDelays == {90, 95}

(* ------------------------------ state -------------------------------- *)

VARIABLES
    pc,                 \* "running": inside while True; "stopped": run_pipeline raised
    now,                \* time.time()
    ai_is_ready,
    model,              \* generation of the fitted IsolationForest in memory, 0: unbound
    scaler,             \* generation of the fitted StandardScaler in memory, 0: unbound
    model_file,         \* generation stored at MODEL_PATH, 0: no file
    scaler_file,        \* generation stored at SCALER_PATH, 0: no file
    last_retrain_time,
    anomaly_counter,
    previous_network,   \* TRUE once previous_network["bytes"] and ["time"] are set
    historical_file,    \* rows of HISTORICAL_DATA_PATH (the TrainingBuffer)
    anomalies_file,     \* rows of DETECTED_ANOMALIES_PATH (the AnomalyArchive)
    h_rows,             \* rows ever written to historical_file (numbers the rows)
    a_rows,             \* rows ever written to anomalies_file
    generation,         \* fits made so far (numbers the fitted pairs)
    fit_input,          \* the batch handed to fit_transform/fit by the last retrain
    streak,             \* history: qualifying samples in a row since the last other sample
    started_at,         \* history: time.time() when run_pipeline reached while True
    last,               \* history: what the most recent pass did
    detector,           \* the EnsembleDetector object: its attributes
    call,               \* history: the most recent call on the EnsembleDetector
    validation          \* history: the most recent call into validate_data.py

vars == << pc, now, ai_is_ready, model, scaler, model_file, scaler_file,
           last_retrain_time, anomaly_counter, previous_network,
           historical_file, anomalies_file, h_rows, a_rows, generation,
           fit_input, streak, started_at, last, detector, call, validation >>

\* the variables of run_pipeline and its module
pipeline_vars == << pc, now, ai_is_ready, model, scaler, model_file, scaler_file,
                    last_retrain_time, anomaly_counter, previous_network,
                    historical_file, anomalies_file, h_rows, a_rows, generation,
                    fit_input, streak, started_at, last >>

\* the variables of an EnsembleDetector
ensemble_vars == << detector, call >>

\* the variables of validate_data.py
validator_vars == << validation >>

(* ------------------------------ helpers ------------------------------ *)

Max(a, b) == IF a >= b THEN a ELSE b

Min(a, b) == IF a <= b THEN a ELSE b

\* DataFrame.tail(n)
Tail_n(s, n) == IF Len(s) > n THEN SubSeq(s, Len(s) - n + 1, Len(s)) ELSE s

\* a CSV row: its arrival number in the file and the raw label of its sample
Row(n, label) == [n |-> n, raw |-> label]

\* rows 1..n of a file that existed before the process was first started
PriorRows(n, label) == [i \in 1..n |-> Row(i, label)]

RawLabel(model_prediction) == IF model_prediction = 1 THEN "anomaly" ELSE "normal"

(* ----------------------- fetch_live_logs ----------------------------- *)

\* What InfluxDB answers to the three queries of one pass: whether a query
\* raises, whether each query returns a point carrying a value for its field,
\* and the fields.  bytes_diff and time_diff are the differences of the net point
\* to the reading remembered in previous_network.
PointAnswers ==
    [ raises : {FALSE},
      cpu_point : {TRUE}, usage_idle : {90, 91},
      mem_point : {TRUE}, used_percent : {29, 30},
      net_point : {TRUE}, bytes_diff : {-10, 150000}, time_diff : {10} ]

FullAnswer ==
    [ raises |-> FALSE, cpu_point |-> TRUE, usage_idle |-> 90,
      mem_point |-> TRUE, used_percent |-> 30,
      net_point |-> TRUE, bytes_diff |-> 150000, time_diff |-> 10 ]

QuietAnswer ==
    [ FullAnswer EXCEPT !.usage_idle = 91, !.used_percent = 29, !.bytes_diff = -10 ]

GapAnswers ==
    { [FullAnswer EXCEPT !.raises = TRUE],
      [FullAnswer EXCEPT !.cpu_point = FALSE],
      [FullAnswer EXCEPT !.mem_point = FALSE],
      [FullAnswer EXCEPT !.net_point = FALSE],
      [FullAnswer EXCEPT !.time_diff = 0] }

Answers == PointAnswers \cup GapAnswers

\* cpu_val = 100 - usage_idle
CpuVal(q) == 100 - q.usage_idle

\* mem_val = used_percent
MemVal(q) == q.used_percent

\* net_val = max(0, bytes_diff / time_diff)
NetVal(q) == Max(0, q.bytes_diff \div q.time_diff)

\* net_val is computed only against a remembered reading that is older
NetAvailable(q, prev) == q.net_point /\ prev /\ q.time_diff > 0

\* the names of the three values of a sample
AllThree == {"cpu", "mem", "net"}

\* the values among cpu_val, mem_val and net_val that are not None when
\* fetch_live_logs decides what to return (none when a query raised)
Got(q, prev) ==
    IF q.raises THEN {}
    ELSE (IF q.cpu_point THEN {"cpu"} ELSE {})
         \cup (IF q.mem_point THEN {"mem"} ELSE {})
         \cup (IF q.net_point /\ prev /\ q.time_diff > 0 THEN {"net"} ELSE {})

\* a variant of LiveEmpty: a frame is returned as soon as one value is there
LiveEmptyAny(q, prev) ==
    \/ q.raises
    \/ ~ (q.cpu_point \/ q.mem_point \/ NetAvailable(q, prev))

\* fetch_live_logs returns an empty frame
LiveEmpty(q, prev) ==
    \/ q.raises
    \/ ~ (q.cpu_point /\ q.mem_point /\ NetAvailable(q, prev))

\* a variant of Processed: the body runs whatever fetch_live_logs returned
ProcessedAlways(live_empty) == TRUE

\* `if not live_df.empty`: the pass scores, writes and stores the sample
Processed(live_empty) == ~ live_empty

\* previous_network after the call
PreviousNetworkAfter(q, prev) == IF q.raises THEN prev ELSE (prev \/ q.net_point)

(* --------------------------- the gate -------------------------------- *)

\* a variant of Scored: the sample is scored whether or not a model is ready
ScoredAlways(ready) == TRUE

\* the sample is handed to scaler.transform and model.predict
Scored(ready) == ready

\* model_prediction: 0 unless the sample was scored and the model predicts -1
ModelPrediction(scored, prediction) ==
    IF scored THEN (IF prediction = -1 THEN 1 ELSE 0) ELSE 0

\* a variant of SurgeCondition: all three thresholds must be met
SurgeConditionAll(cpu_val, mem_val, net_val) ==
    /\ cpu_val >= CPU_SURGE_THRESHOLD
    /\ mem_val >= MEM_SURGE_THRESHOLD
    /\ net_val >= NET_SURGE_THRESHOLD

SurgeCondition(cpu_val, mem_val, net_val) ==
    \/ cpu_val >= CPU_SURGE_THRESHOLD
    \/ mem_val >= MEM_SURGE_THRESHOLD
    \/ net_val >= NET_SURGE_THRESHOLD

\* a variant of GateCounter: the counter decays by one instead of resetting
GateCounterDecay(counter, model_prediction, surge_condition) ==
    IF model_prediction = 1 /\ surge_condition THEN counter + 1 ELSE Max(0, counter - 1)

\* anomaly_counter after the gate
GateCounter(counter, model_prediction, surge_condition) ==
    IF model_prediction = 1 /\ surge_condition THEN counter + 1 ELSE 0

\* a variant of AiStatus: the alert needs more than the threshold
AiStatusLate(counter, model_prediction, surge_condition) ==
    IF model_prediction = 1 /\ surge_condition
    THEN (IF counter > ANOMALY_THRESHOLD THEN 1 ELSE 0)
    ELSE 0

\* ai_status, given anomaly_counter after the gate
AiStatus(counter, model_prediction, surge_condition) ==
    IF model_prediction = 1 /\ surge_condition
    THEN (IF counter >= ANOMALY_THRESHOLD THEN 1 ELSE 0)
    ELSE 0

(* ---------------------- buffers and retraining ----------------------- *)

\* a variant of LearnFrom: the routing follows the gated alert
LearnFromAlert(model_prediction, ai_status) == ai_status = 0

\* the sample goes to the historical CSV (else to save_detected_anomaly)
LearnFrom(model_prediction, ai_status) == model_prediction = 0

\* a variant of UpdatedMemory: head(2000), which drops the newest row
UpdatedMemoryHead(historical_df, row) ==
    SubSeq(historical_df \o << row >>, 1, Min(Len(historical_df) + 1, HISTORY_ROWS))

\* pd.concat([historical_df[features], current_metrics]).tail(2000)
UpdatedMemory(historical_df, row) == Tail_n(historical_df \o << row >>, HISTORY_ROWS)

\* save_detected_anomaly: pd.concat([existing, anomaly_record]).tail(1000)
SaveDetectedAnomaly(existing, row) == Tail_n(existing \o << row >>, ANOMALY_ROWS)

\* a variant of Unlearned: a sample that is not learned from leaves nothing
\* to retrain on
UnlearnedNothing(historical_df) == << >>

\* updated_memory = historical_df[features], when the sample is not learned from
Unlearned(historical_df) == historical_df

\* a variant of RetrainDue: either condition suffices
RetrainDueEither(rows, elapsed) == rows >= RETRAIN_MIN_ROWS \/ elapsed > RETRAIN_INTERVAL

\* a variant of RetrainDue: more than 30 rows are needed
RetrainDueMoreRows(rows, elapsed) == rows > RETRAIN_MIN_ROWS /\ elapsed > RETRAIN_INTERVAL

\* the condition of the retrain
RetrainDue(rows, elapsed) == rows >= RETRAIN_MIN_ROWS /\ elapsed > RETRAIN_INTERVAL

\* a variant of FitBatch: the collected anomalies are trained on as well
FitBatchAll(updated_memory, anomalies) == updated_memory \o anomalies

\* the batch the scaler and the model are fitted on
FitBatch(updated_memory, anomalies) == updated_memory

(* ------------------- evaluation and tracking sink -------------------- *)

\* what the tracking sink does in a call: MLFLOW_AVAILABLE is False, the run
\* is logged, or a call of mlflow raises
Sinks == { "absent", "ok", "raises" }

\* what the evaluation on the collected anomalies does when the anomaly file
\* is there: it raises (read_csv, transform, predict or a metric), or the new
\* model detects none or all of the rows
Evaluations == { "raises", "detects_none", "detects_all" }

\* a variant of log_retrain_to_mlflow without its try/except
log_retrain_to_mlflow_unguarded(sink, metrics) ==
    [ raised |-> sink = "raises",
      logged |-> IF sink = "ok"
                 THEN (IF metrics = "none" THEN "params" ELSE "metrics")
                 ELSE "nothing" ]

\* log_retrain_to_mlflow: what the sink received and whether the call raised
log_retrain_to_mlflow(sink, metrics) ==
    [ raised |-> FALSE,
      logged |-> IF sink = "ok"
                 THEN (IF metrics = "none" THEN "params" ELSE "metrics")
                 ELSE "nothing" ]

\* the evaluation of the retrained model on the anomaly file and the report
\* of the retrain: the metrics are reported when they could be computed
EvaluateAndLog(archive, evaluation, sink) ==
    IF archive = << >> THEN log_retrain_to_mlflow(sink, "none")
    ELSE IF evaluation = "raises" THEN log_retrain_to_mlflow(sink, "none")
    ELSE log_retrain_to_mlflow(sink, evaluation)

\* the evaluations the anomaly file allows
EvaluationsOf(archive) == IF archive = << >> THEN { "no_archive" } ELSE Evaluations

(* ------------------------------ clock -------------------------------- *)

\* The loop reads the clock only to compare time.time() - last_retrain_time
\* with the retrain interval.  A specification with a horizon keeps both as
\* seconds since the first start.  One that runs without end gives no horizon:
\* its clock counts the seconds since last_retrain_time was set, and stops
\* counting one second past the interval, from where on every comparison
\* gives the same.
Endless == -1

\* the pass ends within the horizon
InTime(horizon, t) == horizon < 0 \/ t <= horizon

\* time.time(), t seconds after the first start, as the clock shows it
ClockNow(horizon, t, mark) ==
    IF horizon < 0 THEN Min(t - mark, RETRAIN_INTERVAL + 1) ELSE t

\* a time that was read off the clock, as it is kept
ClockMark(horizon, mark) == IF horizon < 0 THEN 0 ELSE mark

(* ------------------------------ steps -------------------------------- *)

\* the calls of a pass that may raise an I/O error
Faults == { "none", "write_points", "to_csv", "save_anomaly", "dump_model", "dump_scaler" }

\* the points of a pass at which the process may be killed while a CSV file
\* is being rewritten
Crashes == { "kill_to_csv", "kill_save_anomaly" }

\* DataFrame.to_csv(path) opens the file for writing, which empties it, and
\* then writes the rows first to last: the rows a file may hold when the
\* process is killed before the last row is written
KeptRows(rows) == { k \in { 0, Len(rows) - 2, Len(rows) - 1 } : k >= 0 }

\* the file after a to_csv that was cut short after `kept` rows
Interrupted(rows, kept) == SubSeq(rows, 1, kept)

\* what a step leaves in `last`, when it is not a pass that obtained a sample
NoPass(kind, fault, rows, elapsed) ==
    [ kind |-> kind, cpu |-> 0, mem |-> 0, net |-> 0, fitted |-> FALSE,
      scored |-> FALSE, raw |-> 0, alert |-> 0, before |-> 0, fault |-> fault,
      h_added |-> 0, a_added |-> 0, checked |-> FALSE, rows |-> rows,
      elapsed |-> elapsed, retrained |-> FALSE,
      got |-> {}, empty |-> FALSE, written |-> FALSE,
      evaluation |-> "none", sink |-> "none", logged |-> "none", uptime |-> 0 ]

\* run_pipeline has just entered while True for the first time: the files
\* are what earlier runs left (only save_detected_anomaly ever writes the
\* anomaly file), the artifacts exist (generation 1) or not
InitWith(files, generations) ==
    /\ pc = "running"
    /\ now = 0
    /\ last_retrain_time = 0
    /\ \E g \in generations :
          /\ model_file = g /\ scaler_file = g
          /\ model = g /\ scaler = g
          /\ generation = g
          /\ ai_is_ready = (g # 0)
    /\ anomaly_counter = 0
    /\ previous_network = FALSE
    /\ \E f \in files :
          /\ historical_file = PriorRows(f[1], "prior")
          /\ anomalies_file = PriorRows(f[2], "anomaly")
          /\ h_rows = f[1]
          /\ a_rows = f[2]
    /\ fit_input = << >>
    /\ streak = 0
    /\ started_at = 0
    /\ last = NoPass("start", "none", Len(historical_file), 0)
    /\ detector = [state |-> "none"]
    /\ call = [op |-> "none"]
    /\ validation = [op |-> "none"]

\* a pass of while True in which fetch_live_logs returns an empty frame
IterateNoData(horizon, d, q) ==
    /\ pc = "running"
    /\ InTime(horizon, now + d + POLL_SLEEP)
    /\ ~ Processed(LiveEmpty(q, previous_network))
    /\ previous_network' = PreviousNetworkAfter(q, previous_network)
    /\ now' = ClockNow(horizon, now + d + POLL_SLEEP, last_retrain_time)
    /\ last' = [ NoPass("nodata", IF q.raises THEN "query" ELSE "none",
                         Len(historical_file), now + d - last_retrain_time)
                  EXCEPT !.got = Got(q, previous_network),
                         !.empty = LiveEmpty(q, previous_network),
                         !.uptime = now + d - started_at ]
    /\ UNCHANGED << pc, ai_is_ready, model, scaler, model_file, scaler_file,
                    last_retrain_time, anomaly_counter, historical_file,
                    anomalies_file, h_rows, a_rows, generation, fit_input, streak,
                    started_at >>
    /\ UNCHANGED << ensemble_vars, validator_vars >>

\* a pass of while True in which fetch_live_logs returns a sample; prediction
\* is what model.predict answers, fault the call that raises (if any); after a
\* retrain the evaluation and the tracking sink do one of the things they can
IterateData(horizon, d, q, prediction, fault) ==
    /\ pc = "running"
    /\ InTime(horizon, now + d + POLL_SLEEP)
    /\ Processed(LiveEmpty(q, previous_network))
    /\ LET historical_df    == historical_file
           cpu_val          == CpuVal(q)
           mem_val          == MemVal(q)
           net_val          == NetVal(q)
           scored           == Scored(ai_is_ready)
           model_prediction == ModelPrediction(scored, prediction)
           surge_condition  == SurgeCondition(cpu_val, mem_val, net_val)
           counter          == GateCounter(anomaly_counter, model_prediction, surge_condition)
           ai_status        == AiStatus(counter, model_prediction, surge_condition)
           written          == fault # "write_points"
           learn            == written /\ LearnFrom(model_prediction, ai_status)
           learned          == learn /\ fault \notin {"to_csv", "kill_to_csv"}
           archive          == written /\ ~ LearnFrom(model_prediction, ai_status)
           archived         == archive /\ fault \notin {"save_anomaly", "kill_save_anomaly"}
           killed           == \/ learn /\ fault = "kill_to_csv"
                               \/ archive /\ fault = "kill_save_anomaly"
           label            == RawLabel(model_prediction)
           checked          == written /\ (learn => learned) /\ ~ killed
           tcheck           == now + d
           elapsed          == tcheck - last_retrain_time
       IN
       \E updated_memory \in { IF learn
                                THEN UpdatedMemory(historical_df, Row(h_rows + 1, label))
                                ELSE Unlearned(historical_df) } :
       \E retrain \in { checked /\ RetrainDue(Len(updated_memory), elapsed) } :
       \E kept \in (IF killed
                    THEN KeptRows(IF learn THEN updated_memory
                                  ELSE SaveDetectedAnomaly(anomalies_file,
                                                           Row(a_rows + 1, label)))
                    ELSE { 0 }) :
       \E archive_after \in { IF archived
                               THEN SaveDetectedAnomaly(anomalies_file, Row(a_rows + 1, label))
                               ELSE IF archive /\ killed
                               THEN Interrupted(SaveDetectedAnomaly(anomalies_file,
                                                    Row(a_rows + 1, label)), kept)
                               ELSE anomalies_file } :
       \E evaluation \in (IF retrain /\ fault \notin {"dump_model", "dump_scaler"}
                          THEN EvaluationsOf(archive_after) ELSE { "none" }),
          sink \in (IF retrain /\ fault \notin {"dump_model", "dump_scaler"}
                    THEN Sinks ELSE { "none" }) :
       LET dumped_model     == retrain /\ fault # "dump_model"
           dumped_scaler    == dumped_model /\ fault # "dump_scaler"
           advisory         == IF dumped_scaler
                               THEN EvaluateAndLog(archive_after, evaluation, sink)
                               ELSE [ raised |-> FALSE, logged |-> "none" ]
           raised           == (~ written) \/ (learn /\ ~ learned) \/ killed
                               \/ (retrain /\ ~ dumped_scaler)
                               \/ advisory.raised
       IN  /\ \/ fault \in {"none", "write_points"}
              \/ fault = "to_csv" /\ learn
              \/ fault = "save_anomaly" /\ archive
              \/ fault = "kill_to_csv" /\ learn
              \/ fault = "kill_save_anomaly" /\ archive
              \/ fault \in {"dump_model", "dump_scaler"} /\ retrain
           /\ pc' = IF raised THEN "stopped" ELSE "running"
           /\ now' = ClockNow(horizon, IF raised THEN tcheck ELSE tcheck + POLL_SLEEP,
                              IF dumped_scaler THEN tcheck ELSE last_retrain_time)
           /\ anomaly_counter' = counter
           /\ previous_network' = PreviousNetworkAfter(q, previous_network)
           /\ historical_file' = IF learned THEN updated_memory
                                 ELSE IF learn /\ killed
                                 THEN Interrupted(updated_memory, kept)
                                 ELSE historical_file
           /\ h_rows' = IF learned THEN h_rows + 1 ELSE h_rows
           /\ anomalies_file' = archive_after
           /\ a_rows' = IF archived THEN a_rows + 1 ELSE a_rows
           /\ generation' = IF retrain THEN generation + 1 ELSE generation
           /\ scaler' = IF retrain THEN generation + 1 ELSE scaler
           /\ model' = IF retrain THEN generation + 1 ELSE model
           /\ fit_input' = IF retrain THEN FitBatch(updated_memory, anomalies_file')
                           ELSE fit_input
           /\ model_file' = IF dumped_model THEN generation + 1 ELSE model_file
           /\ scaler_file' = IF dumped_scaler THEN generation + 1 ELSE scaler_file
           /\ ai_is_ready' = (ai_is_ready \/ dumped_scaler)
           /\ last_retrain_time' = ClockMark(horizon, IF dumped_scaler THEN tcheck
                                                      ELSE last_retrain_time)
           /\ streak' = IF prediction = -1 /\ ai_is_ready
                           /\ (cpu_val >= CPU_SURGE_THRESHOLD \/ mem_val >= MEM_SURGE_THRESHOLD
                               \/ net_val >= NET_SURGE_THRESHOLD)
                        THEN streak + 1 ELSE 0
           /\ last' = [ kind |-> "data", cpu |-> cpu_val, mem |-> mem_val, net |-> net_val,
                        fitted |-> (model # 0 /\ scaler # 0),
                        scored |-> scored, raw |-> model_prediction,
                        alert |-> ai_status, before |-> anomaly_counter,
                        fault |-> fault,
                        h_added |-> IF learned THEN 1 ELSE 0,
                        a_added |-> IF archived THEN 1 ELSE 0,
                        checked |-> checked,
                        rows |-> Len(historical_file'),
                        elapsed |-> elapsed,
                        retrained |-> retrain,
                        got |-> Got(q, previous_network),
                        empty |-> LiveEmpty(q, previous_network),
                        written |-> written,
                        evaluation |-> evaluation, sink |-> sink,
                        logged |-> advisory.logged,
                        uptime |-> tcheck - started_at ]
           /\ started_at' = started_at
           /\ UNCHANGED << ensemble_vars, validator_vars >>

\* a variant of RetrainTimeAtStart: the time of the last retrain is carried
\* over the restart
RetrainTimeKept(t, before) == before

\* last_retrain_time = time.time() before while True
RetrainTimeAtStart(t, before) == t

\* a variant of CounterAtStart: the counter is carried over the restart
CounterKept(before) == before

\* anomaly_counter = 0 when the module is loaded
CounterAtStart(before) == 0

\* the process is started again after run_pipeline raised: the module is
\* loaded afresh and run_pipeline runs up to while True
Start(horizon, d) ==
    /\ pc = "stopped"
    /\ InTime(horizon, now + d)
    /\ pc' = "running"
    /\ now' = ClockNow(horizon, now + d, RetrainTimeAtStart(now + d, last_retrain_time))
    /\ model' = model_file
    /\ scaler' = IF model_file # 0 THEN scaler_file ELSE 0
    /\ ai_is_ready' = (model_file # 0 /\ scaler_file # 0)
    /\ last_retrain_time' = ClockMark(horizon, RetrainTimeAtStart(now + d, last_retrain_time))
    /\ anomaly_counter' = CounterAtStart(anomaly_counter)
    /\ previous_network' = FALSE
    /\ streak' = 0
    /\ started_at' = ClockMark(horizon, now + d)
    /\ last' = NoPass("start", "none", Len(historical_file), 0)
    /\ UNCHANGED << model_file, scaler_file, historical_file, anomalies_file,
                    h_rows, a_rows, generation, fit_input >>
    /\ UNCHANGED << ensemble_vars, validator_vars >>

\* one pass of while True, in an environment whose blocking calls take one of
\* `delays` seconds, where InfluxDB gives one of `answers` and one of `faults`
\* happens
Iterate(horizon, delays, answers, faults) ==
    \/ \E d \in delays, q \in answers : IterateNoData(horizon, d, q)
    \/ \E d \in delays, q \in answers \cap PointAnswers,
          prediction \in {-1, 1}, fault \in faults :
          IterateData(horizon, d, q, prediction, fault)

\* one step of a process that a supervisor starts again when it has stopped
Pass(horizon, delays, answers, faults) ==
    \/ Iterate(horizon, delays, answers, faults)
    \/ \E d \in delays : Start(horizon, d)

(* -------------------------- specifications --------------------------- *)

\* the time `passes` passes take at most
Horizon(passes, delay) == passes * (delay + POLL_SLEEP)

\* A single run of the process at full polling speed: InfluxDB has a point
\* for every query, the anomaly file can be written, and nothing starts the
\* process again once it has stopped.
InitGate == InitWith({ <<0, 0>> }, {0, 1})

NextGate == Iterate(Horizon(GatePasses, 0), PollDelays, PointAnswers,
                    Faults \ {"save_anomaly"})

SpecGate == InitGate /\ [][NextGate]_vars

\* Slow passes, a sample above and one below the surge thresholds, every
\* gap and fault, restarts: the retrain falls due.
InitRetrain ==
    InitWith({ <<RETRAIN_MIN_ROWS - 2, 0>>, <<RETRAIN_MIN_ROWS - 1, 0>>,
               <<RETRAIN_MIN_ROWS, ANOMALY_ROWS - 1>> }, {0, 1})

NextRetrain == Pass(Horizon(RetrainPasses, 95), SlowDelays,
                    GapAnswers \cup {FullAnswer, QuietAnswer}, Faults)

SpecRetrain == InitRetrain /\ [][NextRetrain]_vars

\* Files one row short of full, every answer and fault, restarts.
InitFiles == InitWith({ <<HISTORY_ROWS - 1, ANOMALY_ROWS - 1>> }, {1})

NextFiles == Pass(Horizon(FilesPasses, 0), PollDelays, Answers, Faults)

SpecFiles == InitFiles /\ [][NextFiles]_vars

\* Files one row short of full, a process that may also be killed while it
\* rewrites a file, restarts.
InitCrash == InitWith({ <<HISTORY_ROWS - 1, ANOMALY_ROWS - 1>> }, {1})

NextCrash == Pass(Horizon(FilesPasses, 0), PollDelays,
                  GapAnswers \cup {FullAnswer, QuietAnswer}, Faults \cup Crashes)

SpecCrash == InitCrash /\ [][NextCrash]_vars

\* Slow passes of a process that stops when write_points raises and is
\* started again, with 29 or 30 rows stored and with or without artifacts.
InitRestart ==
    InitWith({ <<RETRAIN_MIN_ROWS - 1, 0>>, <<RETRAIN_MIN_ROWS, 0>> }, {0, 1})

NextRestart == Pass(Horizon(RestartPasses, 90), {90},
                    {FullAnswer, QuietAnswer, [FullAnswer EXCEPT !.raises = TRUE]},
                    {"none", "write_points"})

SpecRestart == InitRestart /\ [][NextRestart]_vars

\* Polling at full speed with a fitted model, a sample above and one below
\* the surge thresholds, queries that raise, a process that stops when
\* write_points raises and is started again.
InitAlert == InitWith({ <<0, 0>> }, {1})

NextAlert == Pass(Horizon(GatePasses, 0), PollDelays,
                  {FullAnswer, QuietAnswer, [FullAnswer EXCEPT !.raises = TRUE]},
                  {"none", "write_points"})

SpecAlert == InitAlert /\ [][NextAlert]_vars

\* A single run without end, in passes of 100 s: from a cold start (no
\* artifacts, nothing stored) or with 30 rows stored; the model labels as it
\* likes, a query may raise, write_points may raise and stop the loop.  The
\* run is followed up to MaxRetrains retrains and MaxSamples samples.
InitRecur == InitWith({ <<0, 0>> }, {0}) \/ InitWith({ <<RETRAIN_MIN_ROWS, 0>> }, {0, 1})

NextRecur ==
    /\ Iterate(Endless, {90}, {QuietAnswer, [QuietAnswer EXCEPT !.raises = TRUE]},
               {"none", "write_points"})
    /\ generation' <= MaxRetrains
    /\ h_rows' + a_rows' <= MaxSamples

\* a pass in which InfluxDB answers all three queries with a point and no
\* call raises
Yields ==
    /\ \/ IterateNoData(Endless, 90, QuietAnswer)
       \/ \E prediction \in {-1, 1} :
             IterateData(Endless, 90, QuietAnswer, prediction, "none")
    /\ generation' <= MaxRetrains
    /\ h_rows' + a_rows' <= MaxSamples

\* the metric source yields a sample again and again
SpecRecur == InitRecur /\ [][NextRecur]_vars /\ WF_vars(Yields)

(* ------------------- EnsembleDetector: numbers ----------------------- *)

\* Scores, weights and thresholds are floats in the program.  Here a number
\* is either an exact fraction << numerator, denominator >> in lowest terms
\* with a positive denominator, on which the arithmetic is exact (Plus,
\* Times, Over, Leq), or a binary64 value, on which every operation rounds as
\* the program's does (RoundedPlus, RoundedTimes, RoundedOver, RoundedLeq).
\* The voting methods are written once, over the arithmetic they are given.

RECURSIVE GCD(_, _)
GCD(a, b) == IF b = 0 THEN a ELSE GCD(b, a % b)

Frac(n, d) ==
    LET g == GCD(IF n < 0 THEN -n ELSE n, d)
    IN  << n \div g, d \div g >>

Zero == << 0, 1 >>

One == << 1, 1 >>

\* A Python float is an IEEE-754 binary64 value.  Here it is a triple
\* << sign, exponent, mantissa >> that stands for
\* (-1)^sign * mantissa * 2^exponent: the mantissa is a natural number of
\* exactly PRECISION bits (or 0, for 0.0); every operation computes the exact
\* result and rounds it to the nearest such value, ties to the even mantissa.
\* The values tried stay far from the ends of the exponent range, so neither
\* overflow nor subnormal values occur.

\* Natural numbers of any size: the sequence of their digits in base LIMB,
\* lowest first, without leading zeros (0 is the empty sequence).
LIMB == 2^15

PRECISION == 53

Digit(a, i) == IF i <= Len(a) THEN a[i] ELSE 0

RECURSIVE Big(_)
Big(k) == IF k = 0 THEN << >> ELSE << k % LIMB >> \o Big(k \div LIMB)

RECURSIVE Trim(_)
Trim(a) ==
    IF a = << >> \/ a[Len(a)] # 0 THEN a ELSE Trim(SubSeq(a, 1, Len(a) - 1))

\* a + b, from digit i on with a carry
RECURSIVE BigAddFrom(_, _, _, _)
BigAddFrom(a, b, i, carry) ==
    IF i > Len(a) /\ i > Len(b)
    THEN IF carry = 0 THEN << >> ELSE << carry >>
    ELSE LET s == Digit(a, i) + Digit(b, i) + carry
         IN  << s % LIMB >> \o BigAddFrom(a, b, i + 1, s \div LIMB)

BigAdd(a, b) == BigAddFrom(a, b, 1, 0)

\* a - b for a >= b, from digit i on with a borrow
RECURSIVE BigSubFrom(_, _, _, _)
BigSubFrom(a, b, i, borrow) ==
    IF i > Len(a) THEN << >>
    ELSE LET s == a[i] - Digit(b, i) - borrow
         IN  << (s + LIMB) % LIMB >> \o BigSubFrom(a, b, i + 1, IF s < 0 THEN 1 ELSE 0)

BigSub(a, b) == Trim(BigSubFrom(a, b, 1, 0))

\* a < b, comparing the digits from i down
RECURSIVE BigLessFrom(_, _, _)
BigLessFrom(a, b, i) ==
    IF i = 0 THEN FALSE
    ELSE IF a[i] # b[i] THEN a[i] < b[i]
    ELSE BigLessFrom(a, b, i - 1)

BigLess(a, b) ==
    IF Len(a) # Len(b) THEN Len(a) < Len(b) ELSE BigLessFrom(a, b, Len(a))

\* a * k for a digit k
RECURSIVE BigTimesDigitFrom(_, _, _, _)
BigTimesDigitFrom(a, k, i, carry) ==
    IF i > Len(a) THEN IF carry = 0 THEN << >> ELSE << carry >>
    ELSE LET p == a[i] * k + carry
         IN  << p % LIMB >> \o BigTimesDigitFrom(a, k, i + 1, p \div LIMB)

BigTimesDigit(a, k) == IF k = 0 THEN << >> ELSE BigTimesDigitFrom(a, k, 1, 0)

\* a * LIMB^n
ShiftDigits(a, n) == IF a = << >> THEN a ELSE [ i \in 1..n |-> 0 ] \o a

RECURSIVE BigTimesFrom(_, _, _)
BigTimesFrom(a, b, i) ==
    IF i > Len(b) THEN << >>
    ELSE BigAdd(ShiftDigits(BigTimesDigit(a, b[i]), i - 1), BigTimesFrom(a, b, i + 1))

BigTimes(a, b) == BigTimesFrom(a, b, 1)

\* a * 2^n
ShiftLeft(a, n) == ShiftDigits(BigTimesDigit(a, 2^(n % 15)), n \div 15)

\* floor(a / k) for a digit k, from digit i down with a remainder
RECURSIVE BigOverDigitFrom(_, _, _, _)
BigOverDigitFrom(a, k, i, rem) ==
    IF i = 0 THEN << >>
    ELSE LET n == rem * LIMB + a[i]
         IN  BigOverDigitFrom(a, k, i - 1, n % k) \o << n \div k >>

\* floor(a / 2^n)
ShiftRight(a, n) ==
    LET upper == SubSeq(a, n \div 15 + 1, Len(a))
    IN  Trim(BigOverDigitFrom(upper, 2^(n % 15), Len(upper), 0))

\* the number of bits of a digit, of a number
RECURSIVE DigitBits(_)
DigitBits(k) == IF k = 0 THEN 0 ELSE 1 + DigitBits(k \div 2)

Bits(a) == IF a = << >> THEN 0 ELSE 15 * (Len(a) - 1) + DigitBits(a[Len(a)])

\* bit j of a (bit 0 is the lowest)
Bit(a, j) == (Digit(a, j \div 15 + 1) \div 2^(j % 15)) % 2

\* some bit of a below bit j is set
LowBitsSet(a, j) ==
    \/ \E i \in 1..(j \div 15) : Digit(a, i) # 0
    \/ Digit(a, j \div 15 + 1) % 2^(j % 15) # 0

\* the digit k with k * d <= r < (k + 1) * d, for r < d * LIMB and a divisor d
\* whose highest digit is at least LIMB / 2: the quotient of the two highest
\* digits of r by the highest digit of d is k, k + 1 or k + 2
QuotientDigit(r, d) ==
    LET top   == Digit(r, Len(d) + 1) * LIMB + Digit(r, Len(d))
        guess == IF top \div d[Len(d)] < LIMB THEN top \div d[Len(d)] ELSE LIMB - 1
    IN  CHOOSE k \in { guess, guess - 1, guess - 2 } :
            /\ k >= 0
            /\ ~ BigLess(r, BigTimesDigit(d, k))
            /\ BigLess(r, BigAdd(BigTimesDigit(d, k), d))

\* long division of n by d, digit i of n downward, q the quotient and r the
\* remainder so far (r < d): << quotient, remainder >>
RECURSIVE BigDivModFrom(_, _, _, _, _)
BigDivModFrom(n, d, i, q, r) ==
    IF i = 0 THEN << q, r >>
    ELSE LET r2 == Trim(<< n[i] >> \o r)
             k  == QuotientDigit(r2, d)
             r3 == BigSub(r2, BigTimesDigit(d, k))
         IN  IF BigLess(r3, d) /\ Len(q) >= 0
             THEN BigDivModFrom(n, d, i - 1, Trim(<< k >> \o q), r3)
             ELSE << >>

\* << floor(n / d), n % d >> for d > 0; both are first multiplied by the
\* power of two that brings the highest digit of d to LIMB / 2 or more
BigDivMod(n, d) ==
    LET up == 15 - DigitBits(d[Len(d)])
        qr == BigDivModFrom(ShiftLeft(n, up), ShiftLeft(d, up), Len(ShiftLeft(n, up)),
                            << >>, << >>)
    IN  << qr[1], ShiftRight(qr[2], up) >>

IsDouble(a) == Len(a) = 3

DoubleZero(sign) == << sign, 0, << >> >>

\* (-1)^sign * (n + a fraction) * 2^e rounded to binary64; sticky tells that
\* the fraction is not 0
RoundToDouble(sign, n, sticky, e) ==
    LET drop == Bits(n) - PRECISION
    IN  IF n = << >> THEN DoubleZero(sign)
        ELSE IF drop <= 0 THEN << sign, e + drop, ShiftLeft(n, -drop) >>
        ELSE LET kept  == ShiftRight(n, drop)
                 half  == Bit(n, drop - 1) = 1
                 below == sticky \/ LowBitsSet(n, drop - 1)
                 up    == half /\ (below \/ Bit(kept, 0) = 1)
                 next  == BigAdd(kept, <<1>>)
             IN  IF ~ up THEN << sign, e + drop, kept >>
                 ELSE IF Bits(next) > PRECISION
                 THEN << sign, e + drop + 1, ShiftRight(next, 1) >>
                 ELSE << sign, e + drop, next >>

\* (-1)^sign * (n / d) * 2^e rounded to binary64, d > 0
RoundRatio(sign, n, d, e) ==
    LET s  == PRECISION + 2 - (Bits(n) - Bits(d))
        qr == IF s >= 0 THEN BigDivMod(ShiftLeft(n, s), d)
              ELSE BigDivMod(n, ShiftLeft(d, -s))
    IN  IF n = << >> THEN DoubleZero(sign)
        ELSE RoundToDouble(sign, qr[1], qr[2] # << >>, e - s)

\* float(n / d) for a fraction << n, d >>: the value of a literal such as
\* 0.40, of 1.0 / len(self.models), of an int turned float
ToDouble(a) ==
    IF IsDouble(a) THEN a
    ELSE RoundRatio(IF a[1] < 0 THEN 1 ELSE 0, Big(IF a[1] < 0 THEN -a[1] ELSE a[1]),
                    Big(a[2]), 0)

\* |a| < |b| for binary64 values
DoubleMagLess(a, b) ==
    IF a[3] = << >> \/ b[3] = << >> THEN a[3] = << >> /\ b[3] # << >>
    ELSE IF a[2] # b[2] THEN a[2] < b[2]
    ELSE BigLess(a[3], b[3])

DoubleLeq(a, b) ==
    IF a[3] = << >> /\ b[3] = << >> THEN TRUE
    ELSE IF a[1] # b[1] THEN (IF a[3] = << >> THEN b[1] = 0
                              ELSE IF b[3] = << >> THEN a[1] = 1
                              ELSE a[1] = 1)
    ELSE IF a[1] = 0 THEN ~ DoubleMagLess(b, a)
    ELSE ~ DoubleMagLess(a, b)

DoubleTimes(a, b) ==
    RoundToDouble((a[1] + b[1]) % 2, BigTimes(a[3], b[3]), FALSE, a[2] + b[2])

DoubleOver(a, b) == RoundRatio((a[1] + b[1]) % 2, a[3], b[3], a[2] - b[2])

DoublePlus(a, b) ==
    IF a[3] = << >> THEN (IF b[3] = << >> THEN DoubleZero(a[1] * b[1]) ELSE b)
    ELSE IF b[3] = << >> THEN a
    ELSE LET e  == IF a[2] < b[2] THEN a[2] ELSE b[2]
             ma == ShiftLeft(a[3], a[2] - e)
             mb == ShiftLeft(b[3], b[2] - e)
         IN  IF a[1] = b[1] THEN RoundToDouble(a[1], BigAdd(ma, mb), FALSE, e)
             ELSE IF ma = mb THEN DoubleZero(0)
             ELSE IF BigLess(ma, mb) THEN RoundToDouble(b[1], BigSub(mb, ma), FALSE, e)
             ELSE RoundToDouble(a[1], BigSub(ma, mb), FALSE, e)

\* binary64 arithmetic; an operand given as a fraction is the literal or
\* the int of that value
\* (the operands are evaluated before the operation: Strict)
Strict(_ \odot _, a, b) == CHOOSE r \in { x \odot y : x \in {a}, y \in {b} } : TRUE

RoundedPlus(a, b) == Strict(DoublePlus, ToDouble(a), ToDouble(b))

RoundedTimes(a, b) == Strict(DoubleTimes, ToDouble(a), ToDouble(b))

RoundedOver(a, b) == Strict(DoubleOver, ToDouble(a), ToDouble(b))

RoundedLeq(a, b) == Strict(DoubleLeq, ToDouble(a), ToDouble(b))

\* a == 0
IsZero(a) == IF IsDouble(a) THEN a[3] = << >> ELSE a[1] = 0

\* a > 0
IsPositive(a) == ~ IsZero(a) /\ (IF IsDouble(a) THEN a[1] = 0 ELSE a[1] > 0)

\* a + b
Plus(a, b) == Frac(a[1] * b[2] + b[1] * a[2], a[2] * b[2])

\* a * b
Times(a, b) == Frac(a[1] * b[1], a[2] * b[2])

\* a / b for b > 0 (a float division by 0.0 raises ZeroDivisionError: the
\* callers test for it)
Over(a, b) == Frac(a[1] * b[2], a[2] * b[1])

\* a <= b
Leq(a, b) == a[1] * b[2] <= b[1] * a[2]

\* abs(a)
Abs(a) ==
    IF IsDouble(a) THEN << 0, a[2], a[3] >>
    ELSE IF a[1] < 0 THEN << -a[1], a[2] >> ELSE a

\* sum(f[k] for k in S) for a function f of numbers, from 0.0 on, with the
\* addition given; the sum of three or more binary64 values depends on the
\* order, which is CHOOSE's here
RECURSIVE SumWith(_, _, _)
SumWith(_ \oplus _, f, S) ==
    IF S = {} THEN Zero
    ELSE LET k == CHOOSE x \in S : TRUE
         IN  f[k] \oplus SumWith(\oplus, f, S \ {k})

\* max(f[k] for k in S), S not empty, with the comparison given
MaxWith(_ \preceq _, f, S) == CHOOSE m \in {f[k] : k \in S} : \A k \in S : f[k] \preceq m

\* the sum and the maximum of fractions
SumOver(f, S) == SumWith(Plus, f, S)

MaxOver(f, S) == MaxWith(Leq, f, S)

(* ------------------- EnsembleDetector: strings ----------------------- *)

\* A strategy string is the sequence of its characters.
UpperCase == << "A", "D", "E", "F", "G", "H", "I", "M", "N", "O", "R", "S", "T", "W" >>

LowerCase == << "a", "d", "e", "f", "g", "h", "i", "m", "n", "o", "r", "s", "t", "w" >>

\* str.lower() over the letters that occur in the strategies tried
Lower(str) ==
    [ i \in DOMAIN str |->
        IF \E j \in DOMAIN UpperCase : UpperCase[j] = str[i]
        THEN LowerCase[CHOOSE j \in DOMAIN UpperCase : UpperCase[j] = str[i]]
        ELSE str[i] ]

hard == << "h", "a", "r", "d" >>

soft == << "s", "o", "f", "t" >>

weighted == << "w", "e", "i", "g", "h", "t", "e", "d" >>

\* the keys of ENSEMBLE_STRATEGIES
ENSEMBLE_STRATEGIES == { hard, soft, weighted }

(* ------------------- EnsembleDetector: voting ------------------------ *)

\* len(features) that predict accepts
NUM_FEATURES == 3

isolation_forest == "isolation_forest_model.pkl"

elliptic_envelope == "elliptic_envelope_model.pkl"

\* the file train_multiple_models.py writes for the LocalOutlierFactor; the
\* key of MODEL_WEIGHTS is another name
lof == "lof_model.pkl"

MODEL_WEIGHTS ==
    (isolation_forest :> Frac(40, 100)) @@ (elliptic_envelope :> Frac(35, 100))
        @@ ("lof_model_model.pkl" :> Frac(25, 100))

\* a variant of Weight: a scorer without a configured weight weighs 1
WeightOne(model_name, num_models) ==
    IF model_name \in DOMAIN MODEL_WEIGHTS THEN MODEL_WEIGHTS[model_name] ELSE One

\* self.MODEL_WEIGHTS.get(model_name, 1.0 / len(self.models))
Weight(model_name, num_models) ==
    IF model_name \in DOMAIN MODEL_WEIGHTS THEN MODEL_WEIGHTS[model_name]
    ELSE Frac(1, num_models)

\* what a voting method returns, and the ZeroDivisionError a float division
\* by zero raises instead
Decision(score, label) == [ raised |-> "none", score |-> score, label |-> label ]

ZeroDivisionError == [ raised |-> "ZeroDivisionError", score |-> Zero, label |-> 0 ]

\* the entries of model_votes with a prediction (with a score): the scorers
\* that did not raise
Voting(model_votes) == { m \in DOMAIN model_votes : "prediction" \in DOMAIN model_votes[m] }

Scoring(model_votes) == { m \in DOMAIN model_votes : "score" \in DOMAIN model_votes[m] }

\* a variant of hard_voting: more than two thirds must agree
hard_voting_strict(model_votes) ==
    LET predictions   == Voting(model_votes)
        anomaly_count == Cardinality({ m \in predictions : model_votes[m].prediction = 1 })
        total_models  == Cardinality(predictions)
    IN  IF predictions = {} THEN Decision(Zero, 0)
        ELSE Decision(Frac(anomaly_count, total_models),
                      IF anomaly_count * 3 > total_models * 2 THEN 1 ELSE 0)

\* _hard_voting
hard_voting(model_votes) ==
    LET predictions   == Voting(model_votes)
        anomaly_count == Cardinality({ m \in predictions : model_votes[m].prediction = 1 })
        total_models  == Cardinality(predictions)
    IN  IF predictions = {} THEN Decision(Zero, 0)
        ELSE Decision(Frac(anomaly_count, total_models),
                      IF Leq(Frac(total_models * 2, 3), Frac(anomaly_count, 1))
                      THEN 1 ELSE 0)

\* a variant of max_score_or_one: the maximum is used as it is
max_score_as_is(max_score) == max_score

\* `if max_score == 0: max_score = 1.0`
max_score_or_one(max_score) == IF IsZero(max_score) THEN One ELSE max_score

\* the scores are binary64 values
Rounds(model_votes) ==
    \E m \in Scoring(model_votes) : IsDouble(model_votes[m].score)

\* _soft_voting over the arithmetic given
soft_voting_in(_ \oplus _, _ \oslash _, _ \preceq _, model_votes, threshold) ==
    LET members    == Scoring(model_votes)
        scores     == [ m \in members |-> Abs(model_votes[m].score) ]
    IN  IF members = {} THEN Decision(Zero, 0)
        ELSE LET max_score == max_score_or_one(MaxWith(\preceq, scores, members))
             IN  IF IsZero(max_score) THEN ZeroDivisionError
                 ELSE LET normalized_scores == [ m \in members |-> scores[m] \oslash max_score ]
                          ensemble_score ==
                              SumWith(\oplus, normalized_scores, members)
                                  \oslash Frac(Cardinality(members), 1)
                      IN  Decision(ensemble_score,
                                   IF threshold \preceq ensemble_score THEN 1 ELSE 0)

\* a variant of soft_voting: the scores are not divided by the maximum
soft_voting_unnormalised(model_votes, threshold) ==
    LET members    == Scoring(model_votes)
        scores     == [ m \in members |-> Abs(model_votes[m].score) ]
    IN  IF members = {} THEN Decision(Zero, 0)
        ELSE LET ensemble_score ==
                     Over(SumOver(scores, members), Frac(Cardinality(members), 1))
             IN  Decision(ensemble_score,
                          IF Leq(threshold, ensemble_score) THEN 1 ELSE 0)

\* _soft_voting
soft_voting(model_votes, threshold) ==
    IF Rounds(model_votes)
    THEN soft_voting_in(RoundedPlus, RoundedOver, RoundedLeq, model_votes, threshold)
    ELSE soft_voting_in(Plus, Over, Leq, model_votes, threshold)

\* _weighted_voting over the arithmetic given; num_models is
\* len(self.models)
weighted_voting_in(_ \oplus _, _ \otimes _, _ \oslash _, _ \preceq _, model_votes, num_models, threshold) ==
    LET members      == Scoring(model_votes)
        weights      == [ m \in members |-> Weight(m, num_models) ]
        scores       == [ m \in members |-> Abs(model_votes[m].score) ]
        weighted_sum == SumWith(\oplus, [ m \in members |-> scores[m] \otimes weights[m] ],
                                members)
        weight_sum   == SumWith(\oplus, weights, members)
    IN  IF IsZero(weight_sum) THEN Decision(Zero, 0)
        ELSE LET mean      == weighted_sum \oslash weight_sum
                 max_score == IF members = {} THEN One ELSE MaxWith(\preceq, scores, members)
                 ensemble_score ==
                     IF IsPositive(max_score) THEN mean \oslash max_score ELSE mean
             IN  Decision(ensemble_score,
                          IF threshold \preceq ensemble_score THEN 1 ELSE 0)

\* _weighted_voting
weighted_voting(model_votes, num_models, threshold) ==
    IF Rounds(model_votes)
    THEN weighted_voting_in(RoundedPlus, RoundedTimes, RoundedOver, RoundedLeq,
                            model_votes, num_models, threshold)
    ELSE weighted_voting_in(Plus, Times, Over, Leq,
                            model_votes, num_models, threshold)

(* ------------------- EnsembleDetector: the object -------------------- *)

\* the calls made on one detector in a behaviour
MaxCalls == 2

\* What a scorer does when asked: model.predict or score_samples (or
\* decision_function) raises, or they return a prediction (-1: outlier) and
\* a score.
ScorerOutcomes ==
    { [ raises |-> "raises", prediction |-> 1, score |-> Zero ],
      [ raises |-> "no", prediction |-> -1, score |-> Frac(-8, 10) ],
      [ raises |-> "no", prediction |-> -1, score |-> Frac(-4, 10) ],
      [ raises |-> "no", prediction |-> 1, score |-> Frac(-2, 10) ],
      [ raises |-> "no", prediction |-> 1, score |-> Zero ] }

\* the thresholds tried, in and out of [0, 1]
Thresholds == { Frac(-1, 10), Zero, Frac(1, 2), One, Frac(3, 2) }

\* the strategies tried
Strategies ==
    { hard, soft, weighted, << "S", "O", "F", "T" >>,
      << "W", "e", "i", "g", "h", "t", "e", "d" >>, << "m", "e", "a", "n" >>, << >> }

\* What the file system holds at models_dir: whether the directory exists,
\* the *_model.pkl files in it, those of them joblib.load fails on, and the
\* scaler.pkl in it ("none", "ok", or "broken": joblib.load raises).
Directories ==
    { [ exists |-> FALSE, model_files |-> {}, broken |-> {}, scaler_pkl |-> "none" ],
      [ exists |-> TRUE, model_files |-> {}, broken |-> {}, scaler_pkl |-> "ok" ],
      [ exists |-> TRUE, model_files |-> {isolation_forest},
        broken |-> {isolation_forest}, scaler_pkl |-> "ok" ],
      [ exists |-> TRUE, model_files |-> {isolation_forest},
        broken |-> {}, scaler_pkl |-> "none" ],
      [ exists |-> TRUE, model_files |-> {isolation_forest, elliptic_envelope, lof},
        broken |-> {lof}, scaler_pkl |-> "ok" ],
      [ exists |-> TRUE, model_files |-> {isolation_forest, elliptic_envelope, lof},
        broken |-> {}, scaler_pkl |-> "ok" ],
      [ exists |-> TRUE, model_files |-> {isolation_forest, elliptic_envelope, lof},
        broken |-> {}, scaler_pkl |-> "broken" ] }

\* a variant of StrategyOf: the strategy is kept as given
StrategyAsGiven(strategy) == strategy

\* self.strategy = strategy.lower()
StrategyOf(strategy) == Lower(strategy)

\* 0 <= threshold <= 1
ThresholdOk(threshold) == Leq(Zero, threshold) /\ Leq(threshold, One)

\* _load_models: the models loaded, or the error raised
LoadModels(dir) ==
    IF ~ dir.exists THEN [ raised |-> "FileNotFoundError", models |-> {} ]
    ELSE IF dir.model_files = {} THEN [ raised |-> "FileNotFoundError", models |-> {} ]
    ELSE IF dir.model_files \ dir.broken = {} THEN [ raised |-> "RuntimeError", models |-> {} ]
    ELSE [ raised |-> "none", models |-> dir.model_files \ dir.broken ]

\* EnsembleDetector(models_dir, strategy=strategy, threshold=threshold)
Construct(dir, strategy, threshold) ==
    /\ detector.state = "none"
    /\ LET self_strategy == StrategyOf(strategy)
           loaded        == LoadModels(dir)
           raised        ==
               IF self_strategy \notin ENSEMBLE_STRATEGIES THEN "ValueError"
               ELSE IF dir.exists /\ dir.scaler_pkl = "broken" THEN "joblib.load"
               ELSE loaded.raised
           \* the files joblib.load was called on before __init__ returned or raised
           loads         ==
               IF self_strategy \notin ENSEMBLE_STRATEGIES THEN {}
               ELSE (IF dir.exists /\ dir.scaler_pkl # "none" THEN {"scaler.pkl"} ELSE {})
                    \cup (IF dir.exists /\ dir.scaler_pkl # "broken"
                          THEN dir.model_files ELSE {})
       IN  /\ detector' =
                 IF raised # "none" THEN [ state |-> "failed" ]
                 ELSE [ state |-> "ready", strategy |-> self_strategy,
                        threshold |-> threshold, models |-> loaded.models,
                        scaler |-> (dir.scaler_pkl = "ok") ]
           /\ call' = [ op |-> "init", calls |-> 0, raised |-> raised, strategy |-> strategy,
                        threshold |-> threshold, loads |-> loads ]
    /\ UNCHANGED << pipeline_vars, validator_vars >>

\* the body of the try of predict for one scorer: its entry in model_votes
Vote(outcome) ==
    IF outcome.raises # "no" THEN [ error |-> outcome.raises ]
    ELSE [ prediction |-> IF outcome.prediction = -1 THEN 1 ELSE 0,
           score |-> outcome.score ]

\* a variant of ModelVotes: a scorer that raises gets no entry
ModelVotesDropFailed(models, outcomes) ==
    [ m \in { k \in models : outcomes[k].raises = "no" } |-> Vote(outcomes[m]) ]

\* model_votes after the loop over self.models
ModelVotes(models, outcomes) == [ m \in models |-> Vote(outcomes[m]) ]

\* a variant of Combine: a scorer that raised counts as a vote for normal
\* with score 0
CombineFailedAsZero(strategy, model_votes, num_models, threshold) ==
    LET filled == [ m \in DOMAIN model_votes |->
                      IF "error" \in DOMAIN model_votes[m]
                      THEN [ prediction |-> 0, score |-> Zero ]
                      ELSE model_votes[m] ]
    IN  IF strategy = hard THEN hard_voting(filled)
        ELSE IF strategy = soft THEN soft_voting(filled, threshold)
        ELSE weighted_voting(filled, num_models, threshold)

\* the dispatch on self.strategy at the end of predict
Combine(strategy, model_votes, num_models, threshold) ==
    IF strategy = hard THEN hard_voting(model_votes)
    ELSE IF strategy = soft THEN soft_voting(model_votes, threshold)
    ELSE weighted_voting(model_votes, num_models, threshold)

\* len(features) == 3
FeaturesOk(length) == length = NUM_FEATURES

\* detector.predict(features): length is len(features), transform_raises
\* whether self.scaler.transform raises, outcomes what each scorer does
Predict(length, transform_raises, outcomes) ==
    /\ detector.state = "ready"
    /\ call.calls < MaxCalls
    /\ transform_raises => detector.scaler
    /\ \E model_votes \in { ModelVotes(detector.models, outcomes) } :
       \E combined \in { IF FeaturesOk(length) /\ ~ transform_raises
                          THEN Combine(detector.strategy, model_votes,
                                       Cardinality(detector.models), detector.threshold)
                          ELSE Decision(Zero, 0) } :
       LET raised      == IF ~ FeaturesOk(length) THEN "ValueError"
                          ELSE IF transform_raises THEN "transform"
                          ELSE combined.raised
           \* the scaler and the scorers that were called
           invoked     == IF ~ FeaturesOk(length) THEN {}
                          ELSE (IF detector.scaler THEN {"scaler"} ELSE {})
                               \cup (IF transform_raises THEN {} ELSE detector.models)
       IN  call' = [ op |-> "predict", calls |-> call.calls + 1, raised |-> raised,
                     length |-> length, outcomes |-> outcomes, invoked |-> invoked,
                     model_votes |-> IF raised = "none" THEN model_votes ELSE << >>,
                     score |-> IF raised = "none" THEN combined.score ELSE Zero,
                     label |-> IF raised = "none" THEN combined.label ELSE 0 ]
    /\ UNCHANGED detector
    /\ UNCHANGED << pipeline_vars, validator_vars >>

\* detector.set_threshold(threshold)
SetThreshold(threshold) ==
    /\ detector.state = "ready"
    /\ call.calls < MaxCalls
    /\ detector' = IF ThresholdOk(threshold)
                   THEN [ detector EXCEPT !.threshold = threshold ]
                   ELSE detector
    /\ call' = [ op |-> "set_threshold", calls |-> call.calls + 1,
                 raised |-> IF ThresholdOk(threshold) THEN "none" ELSE "ValueError",
                 threshold |-> threshold, before |-> detector.threshold ]
    /\ UNCHANGED << pipeline_vars, validator_vars >>

\* self.models of the detector, once there is one
Loaded == IF detector.state = "ready" THEN detector.models ELSE {}

\* One detector: it is constructed over some directory, then used.
InitEnsemble == InitWith({ <<0, 0>> }, {0})

NextEnsemble ==
    \/ \E dir \in Directories, strategy \in Strategies, threshold \in Thresholds :
          Construct(dir, strategy, threshold)
    \/ \E outcomes \in [Loaded -> ScorerOutcomes] :
          Predict(NUM_FEATURES, FALSE, outcomes)
    \* a call that raises before any scorer is asked: what the scorers would
    \* have done plays no part
    \/ \E length \in {2, 3, 4}, transform_raises \in BOOLEAN :
          /\ ~ FeaturesOk(length) \/ transform_raises
          /\ Predict(length, transform_raises,
                     [ m \in Loaded |-> CHOOSE o \in ScorerOutcomes : o.raises = "no" ])
    \/ \E threshold \in Thresholds : SetThreshold(threshold)

SpecEnsemble == InitEnsemble /\ [][NextEnsemble]_vars

\* The same detector with binary64 scores.  The directories hold at most two
\* scorers: the sum of two floats does not depend on the order in which
\* os.listdir names the files.
FloatOutcomes ==
    { [ raises |-> "raises", prediction |-> 1, score |-> ToDouble(Zero) ],
      [ raises |-> "no", prediction |-> -1, score |-> ToDouble(Frac(-8, 10)) ],
      [ raises |-> "no", prediction |-> 1, score |-> ToDouble(Frac(3, 10)) ],
      [ raises |-> "no", prediction |-> 1, score |-> ToDouble(Zero) ] }

FloatDirectories ==
    { [ exists |-> TRUE, model_files |-> {isolation_forest},
        broken |-> {}, scaler_pkl |-> "ok" ],
      [ exists |-> TRUE, model_files |-> {isolation_forest, elliptic_envelope},
        broken |-> {}, scaler_pkl |-> "ok" ],
      [ exists |-> TRUE, model_files |-> {isolation_forest, elliptic_envelope, lof},
        broken |-> {elliptic_envelope}, scaler_pkl |-> "ok" ] }

NextFloat ==
    \/ \E dir \in FloatDirectories, strategy \in ENSEMBLE_STRATEGIES :
          Construct(dir, strategy, Frac(1, 2))
    \/ \E outcomes \in [Loaded -> FloatOutcomes] :
          Predict(NUM_FEATURES, FALSE, outcomes)

SpecFloat == InitEnsemble /\ [][NextFloat]_vars

(* -------------------------- validate_data.py ------------------------- *)

\* A value handed to validate_live_data is a float: a number or NaN, with
\* which every comparison is False.
Float(v) == [nan |-> FALSE, v |-> v]

NaN == [nan |-> TRUE, v |-> 0]

\* a <= b on floats
FloatLeq(a, b) == ~ a.nan /\ ~ b.nan /\ a.v <= b.v

\* a variant of Between: the bounds themselves are out of range
BetweenOpen(lo, x, hi) ==
    /\ FloatLeq(lo, x) /\ ~ FloatLeq(x, lo)
    /\ FloatLeq(x, hi) /\ ~ FloatLeq(hi, x)

\* lo <= x <= hi
Between(lo, x, hi) == FloatLeq(lo, x) /\ FloatLeq(x, hi)

\* an entry of `issues`: the text names the field and gives the value
Issue(field, value) == [field |-> field, value |-> value]

validate_live_data(cpu, mem, net) ==
    LET issues ==
            (IF ~ Between(Float(0), cpu, Float(100)) THEN << Issue("CPU", cpu) >> ELSE << >>)
            \o (IF ~ Between(Float(0), mem, Float(100)) THEN << Issue("Memory", mem) >> ELSE << >>)
            \o (IF ~ FloatLeq(Float(0), net) THEN << Issue("Network", net) >> ELSE << >>)
    IN  [ok |-> Len(issues) = 0, issues |-> issues]

\* the values tried for cpu, mem and net
CpuValues == { Float(-1), Float(0), Float(10), Float(100), Float(101), NaN }

MemValues == { Float(-1), Float(0), Float(20), Float(100), Float(200), NaN }

NetValues == { Float(-5), Float(0), Float(5), NaN }

\* a call of validate_live_data
ValidateLive(cpu, mem, net) ==
    /\ validation' = [ op |-> "validate_live_data", cpu |-> cpu, mem |-> mem, net |-> net,
                       ok |-> validate_live_data(cpu, mem, net).ok,
                       issues |-> validate_live_data(cpu, mem, net).issues ]
    /\ UNCHANGED << pipeline_vars, ensemble_vars >>

required_columns == { "cpu_usage", "memory_usage", "network_load" }

\* the keys validate_ranges can put into range_violations, from VALIDATION_RULES:
\* network_load has no upper limit
RangeKeys ==
    { "cpu_usage_below_min", "cpu_usage_above_max", "memory_usage_below_min",
      "memory_usage_above_max", "network_load_below_min" }

\* A data set, as far as the checks read it: its columns, the number of its
\* rows, the kinds of range violation that occur in it, the number of its
\* missing values and of its duplicated rows.
Datasets ==
    { df \in [ columns : { required_columns, { "cpu_usage", "memory_usage" } },
               rows : { 20, 100, 120 },
               violations : SUBSET RangeKeys,
               missing : { 0, 1 },
               duplicates : { 0, 2, 3 } ] : TRUE }

\* validate_schema: the value returned
validate_schema(df) == required_columns \subseteq df.columns

\* validate_ranges: all_valid or len(range_violations) < len(df) * 0.05
validate_ranges(df) ==
    df.violations = {} \/ Cardinality(df.violations) * 100 < df.rows * 5

\* validate_missing_values: the value returned
validate_missing_values(df) == df.missing = 0

\* validate_duplicates: False when more than 10% of the rows are duplicates
validate_duplicates(df) ==
    df.duplicates = 0 \/ ~ (df.duplicates * 10 > df.rows)

\* validation_results["passed"] after the four checks: validate_schema,
\* validate_missing_values and validate_duplicates set it to False when they
\* return False; validate_ranges does not touch it
Passed(df) ==
    /\ validate_schema(df)
    /\ validate_missing_values(df)
    /\ validate_duplicates(df)

\* main() on a data file that exists.  validate_ranges reads df[col] for the
\* three columns: on a data set that lacks one it raises KeyError, which main
\* logs and raises again.
Main(df) ==
    /\ validation' =
          IF ~ validate_schema(df)
          THEN [ op |-> "main", df |-> df, raised |-> TRUE, value |-> FALSE,
                 passed |-> FALSE, returned |-> { "schema" }, failed |-> { "schema" } ]
          ELSE [ op |-> "main", df |-> df, raised |-> FALSE, value |-> Passed(df),
                 passed |-> Passed(df),
                 returned |-> { "schema", "ranges", "missing_values", "duplicates" },
                 failed |-> (IF validate_ranges(df) THEN {} ELSE { "ranges" })
                            \cup (IF validate_missing_values(df) THEN {}
                                  ELSE { "missing_values" })
                            \cup (IF validate_duplicates(df) THEN {}
                                  ELSE { "duplicates" }) ]
    /\ UNCHANGED << pipeline_vars, ensemble_vars >>

\* main() when HISTORICAL_DATA_PATH does not exist: it returns False and no
\* check runs
MainNoFile ==
    /\ validation' = [ op |-> "main", df |-> "none", raised |-> FALSE, value |-> FALSE,
                       passed |-> FALSE, returned |-> {}, failed |-> {} ]
    /\ UNCHANGED << pipeline_vars, ensemble_vars >>

InitValidate == InitWith({ <<0, 0>> }, {0})

NextValidate ==
    \/ \E cpu \in CpuValues, mem \in MemValues, net \in NetValues :
          ValidateLive(cpu, mem, net)
    \/ \E df \in Datasets : Main(df)
    \/ MainNoFile

SpecValidate == InitValidate /\ [][NextValidate]_vars

(* ------------------------------ claims ------------------------------- *)

\* the sample of the pass recorded in l was a qualifying one: raw label
\* anomaly and at least one value at or above its surge threshold
Qualifies(l) ==
    /\ l.raw = 1
    /\ \/ l.cpu >= CPU_SURGE_THRESHOLD
       \/ l.mem >= MEM_SURGE_THRESHOLD
       \/ l.net >= NET_SURGE_THRESHOLD

\* the file holds the last Min(written, keep) rows ever written, oldest first
LastRowsInOrder(file, written, keep) ==
    /\ Len(file) = Min(written, keep)
    /\ \A i \in DOMAIN file : file[i].n = written - Len(file) + i

\* C1, as stated: every pass that obtains a sample appends it to exactly one
\* of the two files, the one its raw label names.  Stated for the passes
\* that run to their end (the loop is still running afterwards), so that a
\* violation is one of the routing itself and not of an exception that ends
\* run_pipeline.
C1_ExactlyOneStore ==
    (last.kind = "data" /\ pc = "running") =>
        /\ last.h_added + last.a_added = 1
        /\ last.h_added = 1 <=> last.raw = 0

\* C1, as amended: a pass that obtains a sample appends it to at most one of
\* the two files, to the historical file only if its raw label is normal and
\* to the anomaly file only if it is anomaly.  It is appended to exactly one
\* when no write fails; when the write inside save_detected_anomaly fails
\* (logged, the pass goes on), or write_points or to_csv raises (the pass
\* ends there), it is in neither.  The historical file never holds a row
\* whose raw label was anomaly, the anomaly file never one whose raw label
\* was normal.
C1_Routing ==
    /\ \A i \in DOMAIN historical_file : historical_file[i].raw # "anomaly"
    /\ \A i \in DOMAIN anomalies_file : anomalies_file[i].raw # "normal"
    /\ last.kind = "data" =>
        /\ last.h_added + last.a_added <= 1
        /\ last.h_added = 1 =>
              /\ last.raw = 0
              /\ historical_file[Len(historical_file)] = Row(h_rows, "normal")
        /\ last.a_added = 1 =>
              /\ last.raw = 1
              /\ anomalies_file[Len(anomalies_file)] = Row(a_rows, "anomaly")
        /\ IF last.fault \in {"write_points", "to_csv", "save_anomaly"}
              THEN last.h_added + last.a_added = 0
              ELSE last.h_added + last.a_added = 1
        /\ last.fault = "save_anomaly" => pc = "running"

\* a sample with raw label anomaly, not alerted on, went to the anomaly file
C1_Witness ==
    /\ last.kind = "data" /\ last.raw = 1 /\ last.alert = 0
    /\ last.a_added = 1 /\ last.h_added = 0
    /\ anomalies_file[Len(anomalies_file)].raw = "anomaly"

\* C2: in a run of consecutive qualifying samples that starts with the
\* counter at 0, each sample raises the counter by exactly 1, the first 11
\* give alert 0 and the 12th gives alert 1.
C2_TwelfthAlerts ==
    (last.kind = "data" /\ streak >= 1) =>
        /\ anomaly_counter = streak
        /\ anomaly_counter = last.before + 1
        /\ streak <= 11 => last.alert = 0
        /\ streak = 12 => last.alert = 1

C2_Witness == last.kind = "data" /\ streak = 12 /\ last.alert = 1 /\ last.before = 11

\* C3: after a pass whose sample does not qualify the counter is 0, whatever
\* it was before.
C3_ResetToZero ==
    (last.kind = "data" /\ ~ Qualifies(last)) => anomaly_counter = 0

\* the counter stood at 11 and one normal sample put it to 0
C3_Witness ==
    /\ last.kind = "data" /\ last.raw = 0 /\ last.before = 11
    /\ anomaly_counter = 0

\* C4: the alert of a pass is 1 iff the counter after the pass is at least
\* the threshold; it is 0 when the raw label is normal or all three values
\* are below their thresholds, and 1 on every qualifying sample that finds
\* the counter at or above the threshold.
C4_AlertIffCounter ==
    last.kind = "data" =>
        /\ last.alert = 1 <=> anomaly_counter >= ANOMALY_THRESHOLD
        /\ last.alert \in {0, 1}
        /\ ( \/ last.raw = 0
             \/ /\ last.cpu < CPU_SURGE_THRESHOLD
                /\ last.mem < MEM_SURGE_THRESHOLD
                /\ last.net < NET_SURGE_THRESHOLD ) => last.alert = 0
        /\ (Qualifies(last) /\ last.before >= ANOMALY_THRESHOLD) => last.alert = 1

\* the alert stays 1 on a qualifying sample after the threshold was reached
C4_Witness ==
    /\ last.kind = "data" /\ Qualifies(last)
    /\ last.before >= ANOMALY_THRESHOLD /\ last.alert = 1

\* C5: a pass retrains only with at least 30 rows in the historical file as
\* the pass leaves it and with no less than 300 s since the last retrain (or
\* the start).
C5_NoEarlyRetrain ==
    last.retrained =>
        /\ last.rows >= 30
        /\ Len(fit_input) >= 30
        /\ ~ (last.elapsed < 300)

\* 29 rows and more than 300 s: the pass reached the check and did not retrain
C5_Witness ==
    /\ last.kind = "data" /\ last.checked
    /\ last.rows = 29 /\ last.elapsed > 300 /\ ~ last.retrained

\* C6, as stated: every pass with at least 30 rows in the historical file and
\* at least 300 s since the last retrain retrains.  Stated for the passes in
\* which no call raises, so that a violation is one of the retrain condition
\* itself.
C6_RetrainAtThreeHundred ==
    ( /\ last.kind \in {"data", "nodata"} /\ last.fault = "none"
      /\ last.rows >= 30 /\ last.elapsed >= 300 )
        => last.retrained

\* C6, as amended: every pass that evaluates the retrain condition with at
\* least 30 rows and more than 300 s since the last retrain retrains: scaler
\* and model are fitted on the historical file and, when both dumps return,
\* both are stored, detection is enabled and last_retrain_time is the time of
\* the check.  A pass without a sample, and a pass that write_points or to_csv
\* ends, does not evaluate the condition and does not retrain; neither does a
\* pass that evaluates it at exactly 300 s.
C6_RetrainFires ==
    /\ (last.kind = "data" /\ last.checked /\ last.rows >= 30 /\ last.elapsed > 300) =>
        /\ last.retrained
        /\ fit_input = historical_file
        /\ model = generation /\ scaler = generation
        /\ last.fault \notin {"dump_model", "dump_scaler"} =>
              /\ pc = "running"
              /\ model_file = generation /\ scaler_file = generation
              /\ ai_is_ready
              /\ last_retrain_time = now - POLL_SLEEP
    /\ (last.kind = "nodata" \/ last.fault \in {"write_points", "to_csv"}) =>
        ~ last.checked /\ ~ last.retrained
    /\ (last.kind = "data" /\ last.checked /\ last.elapsed = 300) => ~ last.retrained

\* a retrain on exactly 30 rows, stored
C6_Witness ==
    /\ last.retrained /\ last.rows = 30 /\ last.elapsed > 300
    /\ model_file = generation /\ scaler_file = generation /\ pc = "running"

\* what C7 says of every state
C7_NotFitted ==
    /\ last.kind = "start" => pc = "running"
    /\ last.scored => last.fitted
    /\ (last.kind = "data" /\ ~ last.fitted) =>
          /\ ~ last.scored
          /\ last.raw = 0 /\ last.alert = 0 /\ anomaly_counter = 0
    /\ (last.retrained /\ pc = "running") => ai_is_ready

\* C7: a start without artifacts leaves the loop running; while no fitted
\* scaler and model are in memory no sample is scored, every sample gets raw
\* label normal, the counter stays 0 and the alert is 0; a completed retrain
\* enables detection, and detection once enabled is never disabled.
C7_ColdStart == [] C7_NotFitted /\ [][ai_is_ready => ai_is_ready']_vars

\* started without artifacts, retrained once, and then scored a sample
C7_Witness ==
    /\ last.kind = "data" /\ last.scored /\ last.fitted
    /\ generation = 1 /\ fit_input # << >>

\* C8: a query that raises or a write_points that raises leaves the loop
\* running, and the pass counts as one without data.
C8_TransientIoSurvived ==
    last.fault \in {"query", "write_points"} =>
        /\ pc = "running"
        /\ last.h_added = 0 /\ last.a_added = 0 /\ ~ last.retrained

C10_ArchiveNotTrainedOn ==
    /\ Len(anomalies_file) <= 1000
    /\ LastRowsInOrder(anomalies_file, a_rows, 1000)
    /\ \A i \in DOMAIN fit_input : fit_input[i].raw # "anomaly"
    /\ last.retrained => fit_input = historical_file

\* a retrain while the anomaly file is full and has evicted a row
C10_Witness ==
    /\ last.retrained /\ a_rows > 1000 /\ Len(anomalies_file) = 1000
    /\ anomalies_file[1].n = a_rows - 999

\* C11: a pass obtains a sample iff cpu, memory and network rate were all
\* obtained in that pass; when a query raises or a value is missing the pass
\* is one without data, and nothing is scored, written or stored from it.
C11_AllThreeOrNoData ==
    last.kind \in {"data", "nodata"} =>
        /\ last.kind = "data" <=> last.got = AllThree
        /\ last.empty <=> last.got # AllThree
        /\ last.fault = "query" => last.kind = "nodata"
        /\ last.got # AllThree =>
              /\ ~ last.scored /\ ~ last.written /\ ~ last.retrained
              /\ last.h_added = 0 /\ last.a_added = 0

\* cpu and network rate were there, memory was not: no sample
C11_Witness ==
    /\ last.kind = "nodata" /\ last.got = {"cpu", "net"}
    /\ ~ last.written /\ last.h_added = 0 /\ last.a_added = 0

\* C12: a pass without data writes no point and leaves the gate counter, the
\* two files, the scaler and the model (in memory and stored), ai_is_ready
\* and last_retrain_time as they were.
C12_NoDataSkipped ==
    [][ (last'.kind # "start" /\ last'.empty) =>
            /\ ~ last'.written
            /\ UNCHANGED << anomaly_counter, historical_file, anomalies_file,
                            model, scaler, model_file, scaler_file,
                            ai_is_ready, last_retrain_time, pc >> ]_vars

\* a gap in the data while the counter stands at 2: it still stands at 2
C12_Witness ==
    /\ last.kind = "nodata" /\ last.empty
    /\ anomaly_counter = 2 /\ streak = 2

\* a predict call on the detector that returned a decision
Returned == call.op = "predict" /\ call.raised = "none"

\* the scorers that did not raise in the call, and their |score|
Succeeded == { m \in DOMAIN call.outcomes : call.outcomes[m].raises = "no" }

AbsScores == [ m \in Succeeded |-> Abs(call.outcomes[m].score) ]

\* the scorers that predicted -1 (outlier) in the call
AnomalyVotes == { m \in Succeeded : call.outcomes[m].prediction = -1 }

\* C13: with strategy hard and at least one scorer that did not raise, the
\* score is anomaly votes / votes over the scorers that did not raise, and
\* the label is anomaly iff the score is at least 2/3.
C13_HardVoting ==
    (Returned /\ detector.strategy = hard /\ Succeeded # {}) =>
        /\ call.score = Frac(Cardinality(AnomalyVotes), Cardinality(Succeeded))
        /\ call.label = 1 <=> Leq(Frac(2, 3), call.score)
        /\ call.label \in {0, 1}

\* three scorers vote anomaly, anomaly, normal: score 2/3, label anomaly
C13_Witness ==
    /\ Returned /\ detector.strategy = hard
    /\ Cardinality(Succeeded) = 3 /\ Cardinality(AnomalyVotes) = 2
    /\ call.score = Frac(2, 3) /\ call.label = 1

\* C14: with strategy soft the score is the mean over the scorers that
\* scored of |score| / max |score| of the call (0 when every score is 0),
\* and the label is anomaly iff the score is at least the threshold.
C14_SoftVoting ==
    (Returned /\ detector.strategy = soft /\ Succeeded # {}) =>
        LET max_abs == MaxOver(AbsScores, Succeeded)
        IN  /\ max_abs # Zero =>
                  call.score = Over(SumOver(AbsScores, Succeeded),
                                    Times(Frac(Cardinality(Succeeded), 1), max_abs))
            /\ max_abs = Zero => call.score = Zero
            /\ call.label = 1 <=> Leq(detector.threshold, call.score)
            /\ call.label \in {0, 1}

\* scores -0.2, -0.8, -0.4 at threshold 0.5: score 7/12 = 0.583, anomaly
C14_Witness ==
    /\ Returned /\ detector.strategy = soft /\ detector.threshold = Frac(1, 2)
    /\ { call.outcomes[m].score : m \in Succeeded }
          = { Frac(-2, 10), Frac(-8, 10), Frac(-4, 10) }
    /\ call.score = Frac(7, 12) /\ call.label = 1

\* the weight C15 gives a scorer: its static weight, else 1 / number of
\* loaded scorers
StaticWeight(m) ==
    IF m = isolation_forest THEN Frac(40, 100)
    ELSE IF m = elliptic_envelope THEN Frac(35, 100)
    ELSE IF m = "lof_model_model.pkl" THEN Frac(25, 100)
    ELSE Frac(1, Cardinality(detector.models))

\* C15: with strategy weighted the score is sum(weight * |score|) /
\* sum(weight) over the scorers that scored, divided by max |score| of the
\* call (left undivided when every score is 0), and the label is anomaly iff
\* the score is at least the threshold.
C15_WeightedVoting ==
    (Returned /\ detector.strategy = weighted /\ Succeeded # {}) =>
        LET max_abs == MaxOver(AbsScores, Succeeded)
            mean    == Over(SumOver([ m \in Succeeded |->
                                        Times(StaticWeight(m), AbsScores[m]) ], Succeeded),
                            SumOver([ m \in Succeeded |-> StaticWeight(m) ], Succeeded))
        IN  /\ max_abs # Zero => call.score = Over(mean, max_abs)
            /\ max_abs = Zero => call.score = Zero
            /\ call.label = 1 <=> Leq(detector.threshold, call.score)
            /\ call.label \in {0, 1}

\* three loaded scorers; the one without a static weight (weight 1/3) scores
\* 0.8, isolation forest 0.2 and the third raises:
\* (0.4 * 0.2 + 0.8 / 3) / (0.4 + 1 / 3) / 0.8 = 13/22
C15_Witness ==
    /\ Returned /\ detector.strategy = weighted
    /\ Cardinality(detector.models) = 3 /\ Succeeded = {isolation_forest, lof}
    /\ call.outcomes[isolation_forest].score = Frac(-2, 10)
    /\ call.outcomes[lof].score = Frac(-8, 10)
    /\ call.score = Frac(13, 22)

\* a predict call with 3 features whose scaling did not raise: every loaded
\* scorer was asked
Asked == call.op = "predict" /\ call.length = NUM_FEATURES /\ call.raised # "transform"

\* C16: whatever the strategy and whichever scorers raise, predict returns a
\* decision, and model_votes has an entry for every loaded scorer: an error
\* marker for one that raised, its prediction and score for one that did not.
C16_ScorerFailureIsolated ==
    Asked =>
        /\ call.raised = "none"
        /\ call.label \in {0, 1}
        /\ DOMAIN call.model_votes = detector.models
        /\ \A m \in detector.models :
              IF call.outcomes[m].raises # "no"
              THEN DOMAIN call.model_votes[m] = {"error"}
              ELSE call.model_votes[m] =
                      [ prediction |-> IF call.outcomes[m].prediction = -1 THEN 1 ELSE 0,
                        score |-> call.outcomes[m].score ]

\* two of three scorers raise and the call returns with three entries
C16_Witness ==
    /\ Returned /\ Cardinality(detector.models) = 3 /\ Cardinality(Succeeded) = 1
    /\ Cardinality({ m \in DOMAIN call.model_votes :
                        "error" \in DOMAIN call.model_votes[m] }) = 2

\* what a detector with the scorers `members` loaded, `num_models` as its
\* len(self.models), and the strategy and threshold of this detector returns
\* when its scorers do what they did in the call
Among(members, num_models) ==
    Combine(detector.strategy,
            ModelVotes(members, [ m \in members |-> call.outcomes[m] ]),
            num_models, detector.threshold)

\* C17, as stated: when some scorers raise, score and label are those of an
\* ensemble that consists of the scorers that did not raise.  Stated for
\* detectors whose threshold is within [0, 1].
C17_AsSmallerEnsemble ==
    ( /\ Returned /\ Succeeded # {} /\ Succeeded # detector.models
      /\ ThresholdOk(detector.threshold) ) =>
        LET smaller == Among(Succeeded, Cardinality(Succeeded))
        IN  call.score = smaller.score /\ call.label = smaller.label

\* C17, as amended: with hard and soft, score and label are those of an
\* ensemble of the scorers that did not raise; with weighted they are those
\* computed over the scorers that did not raise with the weights they have in
\* this ensemble (a scorer without a static weight weighs 1 / the number of
\* loaded scorers, raised ones included), which is the smaller ensemble's
\* result when every scorer that did not raise has a static weight.
C17_FailedExcluded ==
    (Returned /\ Succeeded # {} /\ Succeeded # detector.models) =>
        LET smaller == Among(Succeeded, Cardinality(Succeeded))
            same    == Among(Succeeded, Cardinality(detector.models))
        IN  /\ call.score = same.score /\ call.label = same.label
            /\ ( \/ detector.strategy \in {hard, soft}
                 \/ Succeeded \subseteq DOMAIN MODEL_WEIGHTS )
                  => (call.score = smaller.score /\ call.label = smaller.label)

\* hard voting, one scorer raises, the others vote anomaly and normal: the
\* score is 1/2, not 1/3
C17_Witness ==
    /\ Returned /\ detector.strategy = hard
    /\ Cardinality(detector.models) = 3 /\ Cardinality(Succeeded) = 2
    /\ Cardinality(AnomalyVotes) = 1 /\ call.score = Frac(1, 2) /\ call.label = 0

\* C18: no strategy divides by zero: when every scorer raises the call
\* returns score 0 and label normal, and when every score is 0 it returns a
\* decision.
C18_NoDivisionByZero ==
    Asked =>
        /\ call.raised # "ZeroDivisionError"
        /\ Succeeded = {} => (call.raised = "none" /\ call.score = Zero /\ call.label = 0)
        /\ (Succeeded # {} /\ \A m \in Succeeded : call.outcomes[m].score = Zero) =>
              (call.raised = "none" /\ (detector.strategy # hard => call.score = Zero))

\* soft voting over three scorers that all score 0
C18_Witness ==
    /\ Returned /\ detector.strategy = soft /\ Cardinality(Succeeded) = 3
    /\ \A m \in Succeeded : call.outcomes[m].score = Zero
    /\ call.score = Zero

\* the strategies tried that are hard, soft or weighted up to case
KnownUpToCase ==
    { hard, soft, weighted, << "S", "O", "F", "T" >>,
      << "W", "e", "i", "g", "h", "t", "e", "d" >> }

\* C19: a strategy that is not hard, soft or weighted up to case makes the
\* constructor raise before anything is loaded; a feature vector whose length
\* is not 3 makes predict raise before the scaler or a scorer is called, and
\* no decision is returned.
C19_FailFast ==
    /\ call.op = "init" =>
          /\ call.raised = "ValueError" <=> call.strategy \notin KnownUpToCase
          /\ call.raised = "ValueError" => (call.loads = {} /\ detector.state = "failed")
          /\ detector.state = "ready" => detector.strategy \in ENSEMBLE_STRATEGIES
    /\ call.op = "predict" =>
          /\ call.raised = "ValueError" <=> call.length # 3
          /\ call.length # 3 => (call.invoked = {} /\ call.model_votes = << >>)

\* predict with 4 features on a detector that has a scaler and three scorers
C19_Witness ==
    /\ call.op = "predict" /\ call.length = 4 /\ call.raised = "ValueError"
    /\ detector.scaler /\ Cardinality(detector.models) = 3 /\ call.invoked = {}

\* C20: the threshold of a detector is always within [0, 1]: a threshold out
\* of range is rejected by the constructor and by set_threshold, and a
\* rejected set_threshold leaves the threshold as it was.
C20_ThresholdInRange ==
    /\ detector.state = "ready" => ThresholdOk(detector.threshold)
    /\ (call.op = "init" /\ ~ ThresholdOk(call.threshold)) => call.raised # "none"
    /\ (call.op = "set_threshold" /\ ~ ThresholdOk(call.threshold)) =>
          (call.raised = "ValueError" /\ detector.threshold = call.before)

\* C22: the evaluation and the tracking sink are consulted only by a pass
\* whose retrain stored both artifacts, and whatever they do (no anomaly file,
\* any metrics, the evaluation raising; no sink, a sink that logs, a sink
\* that raises) the pass ends as the sample, the raw label and the clock
\* alone determine: the loop is still running, the counter and the alert are
\* those of the gate, the sample is in the file of its raw label, the new pair
\* is in use and stored, and last_retrain_time is the time of the check.
C22_AdvisoryOnly ==
    /\ last.sink # "none" <=>
          (last.retrained /\ last.fault \notin {"dump_model", "dump_scaler"})
    /\ last.sink # "none" =>
          /\ pc = "running"
          /\ anomaly_counter = (IF Qualifies(last) THEN last.before + 1 ELSE 0)
          /\ last.alert = (IF Qualifies(last) /\ last.before + 1 >= ANOMALY_THRESHOLD
                           THEN 1 ELSE 0)
          /\ last.h_added = (IF last.raw = 0 THEN 1 ELSE 0)
          /\ last.a_added = (IF last.raw = 1 /\ last.fault = "none" THEN 1 ELSE 0)
          /\ fit_input = historical_file
          /\ model = generation /\ scaler = generation
          /\ model_file = generation /\ scaler_file = generation
          /\ ai_is_ready
          /\ last_retrain_time = now - POLL_SLEEP

\* a retrain after which the evaluation raised and the sink raised as well
C22_Witness ==
    /\ last.retrained /\ last.evaluation = "raises" /\ last.sink = "raises"
    /\ last.logged = "nothing" /\ pc = "running"

\* C23: whenever the process may stop and be started again, or a reader may
\* load the artifacts, the stored model and the stored scaler come from the
\* same fit.
C23_SameGeneration ==
    (model_file # 0 /\ scaler_file # 0) => model_file = scaler_file

\* the file holds every row written to it by a pass that ran to its end,
\* but for those the capacity evicted: the `keep` most recent, or one less
\* when a pass was cut short after evicting the oldest
HoldsHistory(file, written, keep) ==
    \A n \in Max(1, written - keep + 2) .. written :
        /\ file # << >>
        /\ n - file[1].n + 1 \in DOMAIN file
        /\ file[n - file[1].n + 1].n = n

\* C24: whatever stopped the process and wherever in a pass, the two files
\* the restarted loop reads hold every sample that passes which ran to their
\* end stored in them (but for the evicted ones): only the sample of the
\* pass that was cut short may be missing.
C24_HistorySurvives ==
    /\ HoldsHistory(historical_file, h_rows, HISTORY_ROWS)
    /\ HoldsHistory(anomalies_file, a_rows, ANOMALY_ROWS)

\* C30: a start sets last_retrain_time to the time of the start, and no pass
\* retrains in the first 300 s after the start or restart of the process,
\* whatever the historical file holds and whether or not a model was loaded:
\* a process that is started again before it is 300 s old never retrains.
C30_NoRetrainAfterStart ==
    /\ last.kind = "start" => (last_retrain_time = now /\ started_at = now)
    /\ last_retrain_time >= started_at
    /\ last.retrained => last.uptime > RETRAIN_INTERVAL

\* started again with 30 rows stored and no model: 90 s later a sample passes
\* the check and is not retrained on
C30_Witness ==
    /\ started_at > 0 /\ last.kind = "data" /\ last.checked
    /\ last.rows >= RETRAIN_MIN_ROWS /\ ~ last.fitted
    /\ last.uptime <= RETRAIN_INTERVAL /\ ~ last.retrained

\* C28: a pass writes alert 1 only when its sample and the 11 samples
\* obtained before it, passes without data not counted, all had raw label
\* anomaly and a value at or above its surge threshold, and the process was
\* not started again among them.
C28_AlertNeedsTwelve ==
    (last.kind = "data" /\ last.alert = 1) =>
        /\ streak >= ANOMALY_THRESHOLD
        /\ Qualifies(last)

\* the process was started again, and the 12th qualifying sample after that
\* is the first to write alert 1
C28_Witness ==
    /\ started_at > 0 /\ last.kind = "data" /\ last.written
    /\ last.alert = 1 /\ streak = ANOMALY_THRESHOLD

\* C25: with at least 30 rows in the historical file, a retrain follows, and
\* after it another one, and so on for as long as the run is followed, unless
\* the loop stops; whatever the model labels the samples.
C25_RetrainRecurs ==
    ( /\ generation < MaxRetrains /\ Len(historical_file) >= RETRAIN_MIN_ROWS
      /\ ~ last.retrained )
        ~> (last.retrained \/ pc = "stopped")

\* two retrains in a run in which the model labelled every sample anomaly:
\* nothing was added to the 30 rows
C25_Witness ==
    /\ generation = 3 /\ last.retrained /\ last.raw = 1
    /\ h_rows = RETRAIN_MIN_ROWS /\ a_rows >= 6 /\ pc = "running"

\* C29: a loop that starts without a model does not stay without one: the
\* historical file reaches 30 rows, a retrain fires and detection is enabled.
C29_ColdStartEnds ==
    (~ ai_is_ready) ~>
        (ai_is_ready /\ generation >= 1 /\ Len(historical_file) >= RETRAIN_MIN_ROWS)

\* the value is a number from lo to hi (from lo on, when there is no hi)
Within(x, lo, hi) == ~ x.nan /\ x.v >= lo /\ x.v <= hi

AtLeast(x, lo) == ~ x.nan /\ x.v >= lo

\* C26: validate_live_data returns ok = True and no issue iff cpu and mem are
\* from 0 to 100 and net is at least 0; otherwise ok = False and one issue
\* for each of the three values that is out of its range, in the order cpu,
\* mem, net.
C26_LiveDataRanges ==
    validation.op = "validate_live_data" =>
        LET cpu_ok == Within(validation.cpu, 0, 100)
            mem_ok == Within(validation.mem, 0, 100)
            net_ok == AtLeast(validation.net, 0)
            fields == [ i \in DOMAIN validation.issues |-> validation.issues[i].field ]
        IN  /\ validation.ok <=> (cpu_ok /\ mem_ok /\ net_ok)
            /\ validation.ok <=> validation.issues = << >>
            /\ Len(validation.issues) = (IF cpu_ok THEN 0 ELSE 1) + (IF mem_ok THEN 0 ELSE 1)
                                          + (IF net_ok THEN 0 ELSE 1)
            /\ fields = (IF cpu_ok THEN << >> ELSE << "CPU" >>)
                         \o (IF mem_ok THEN << >> ELSE << "Memory" >>)
                         \o (IF net_ok THEN << >> ELSE << "Network" >>)

\* validate_live_data(-1, 200, -5): three issues
C26_Witness ==
    /\ validation.op = "validate_live_data"
    /\ validation.cpu = Float(-1) /\ validation.mem = Float(200)
    /\ validation.net = Float(-5)
    /\ ~ validation.ok /\ Len(validation.issues) = 3

\* C27: when one of validate_schema, validate_ranges, validate_missing_values
\* and validate_duplicates returns False, validation_results["passed"] is
\* False, and so is the value main returns (the value save_validation_report
\* returned) when it returns one.
C27_FailsWhenACheckFails ==
    (validation.op = "main" /\ validation.failed # {}) =>
        /\ ~ validation.passed
        /\ ~ validation.raised => ~ validation.value

\* C21: whatever the strategy, the scores and the scorers that fail, the
\* ensemble score predict returns lies in [0, 1] and the label is 0 or 1.
C21_ScoreInUnitInterval ==
    (call.op = "predict" /\ call.raised = "none") =>
        /\ RoundedLeq(Zero, call.score) /\ RoundedLeq(call.score, One)
        /\ call.label \in {0, 1}
====
